---- MODULE Spec2Model ----
(***************************************************************************)
(* Model of mse_auto_scraper_alerts.py: the deduplicating SQLite store     *)
(* (save_to_sqlite), the Excel export (save_to_excel), the notifier        *)
(* (send_email), one ingestion cycle (daily_job) and the scheduler loop    *)
(* (run_daily).                                                            *)
(*                                                                         *)
(* A DataFrame is modelled as a record [hasTicker, rows]: whether it has a *)
(* "Ticker" column, and its rows in order.  A row is                       *)
(* [Ticker, scrape_date, Close]; Ticker is NULL in a frame that has no     *)
(* Ticker column.  The SQLite table is the sequence of its committed rows  *)
(* in rowid order: SQLite gives an inserted row the rowid max(rowid)+1, so *)
(* the position in the sequence orders rows exactly as rowid does.         *)
(***************************************************************************)
EXTENDS Integers, Sequences, FiniteSets, TLC

VARIABLES
    table,      \* committed rows of daily_prices in mse_data.db, in rowid order
    schema,     \* "none": no table yet; "Ticker" / "noTicker": its columns
    excel,      \* mse_daily.xlsx: NoFile, or the frame it holds
    df,         \* the frame in hand (fetched by the cycle / given to the store)
    table0,     \* the table when the cycle (or the direct store call) began
    excel0,     \* the export file when the cycle (or the direct call) began
    phase,      \* direct store calls: what has been done with df so far
    pc,         \* daily_job: the statement about to run
    calls,      \* daily_job: the functions called so far in this cycle
    sent,       \* daily_job: the send_email calls of this cycle (rows: the row
                \* count the message body states, -1 when it states none)
    outcome,    \* daily_job: what the cycle logged ("success" / "failure")
    before,     \* what the cycle before this one logged
    now,        \* wall clock, in polling intervals (minutes) since day 0, 00:00
    next_run,   \* schedule: the job's next due time
    lpc,        \* run_daily: the statement about to run
    start,      \* the time run_daily was entered
    served,     \* per day: scheduled invocations whose due time is on that day
    perDay      \* number of daily_job invocations begun on each calendar day

vars == <<table, schema, excel, df, table0, excel0, phase, pc, calls, sent,
          outcome, before, now, next_run, lpc, start, served, perDay>>

storeVars == <<table, schema, excel>>
jobVars   == <<pc, calls, sent, outcome, before>>
loopVars  == <<now, next_run, lpc, start, served, perDay>>

-----------------------------------------------------------------------------
(* Bounds of the model *)

MaxLen == 2         \* rows in one frame handed directly to the store
MaxRows == 4        \* rows the table may hold at any moment
MaxFetch == 2       \* rows in one frame fetched by a cycle
MaxDur == 1         \* polling intervals fetch_table may take
MaxDay == 1         \* last calendar day the clock reaches
MinutesPerDay == 4  \* polling intervals in a calendar day

RUN_TIME == 2       \* "16:00", as a polling interval of the modelled day

Tickers == {"X", "Y", "Z"}
Values == {"a", "b"}
NULL == "NULL"
NoFile == [missing |-> TRUE]   \* no export file on disk
NoDf == [unbound |-> TRUE]     \* no frame in hand

-----------------------------------------------------------------------------
(* Frames *)

Row(t, d, v) == [Ticker |-> t, scrape_date |-> d, Close |-> v]

Key(r) == <<r.Ticker, r.scrape_date>>

SeqsUpTo(S, n) == UNION {[1..k -> S] : k \in 0..n}

\* The frames of at most n rows over tickers T and values V, all stamped
\* with date d (fetch_table stamps every row of a frame with the same
\* scrape_date).
Frames(T, V, d, n) ==
    {[hasTicker |-> TRUE, rows |-> s] :
        s \in SeqsUpTo({Row(t, d, v) : t \in T, v \in V}, n)}
    \cup
    {[hasTicker |-> FALSE, rows |-> s] :
        s \in SeqsUpTo({Row(NULL, d, v) : v \in V}, n)}

\* The frames that are RecordSets: every row carries its instrument.
RecordSets(T, V, d, n) == {f \in Frames(T, V, d, n) : f.hasTicker}

Keys(rows) == {Key(rows[i]) : i \in DOMAIN rows}

NoDuplicates(rows) ==
    \A i, j \in DOMAIN rows : Key(rows[i]) = Key(rows[j]) => i = j

-----------------------------------------------------------------------------
(* save_to_sqlite *)

\* df.to_sql(..., if_exists="append"): the insert is refused when the frame
\* has a column the existing table lacks.
ColumnsFit(sch, frame) == ~(sch = "noTicker" /\ frame.hasTicker)

\* The table's columns after to_sql: created from the frame when absent.
SchemaAfter(sch, frame) ==
    IF sch = "none"
    THEN (IF frame.hasTicker THEN "Ticker" ELSE "noTicker")
    ELSE sch

\* Faulty variant: the frame's rows get the lowest rowids.
to_sql_in_front(tbl, frame) == frame.rows \o tbl

\* The rows after to_sql: the frame's rows get the next rowids.
to_sql(tbl, frame) == tbl \o frame.rows

\* Faulty variant: the compaction keeps the highest rowid of each group.
MaxRowids(rows) ==
    {i \in DOMAIN rows : \A j \in (i + 1)..Len(rows) : Key(rows[j]) # Key(rows[i])}

\* SELECT MIN(rowid) ... GROUP BY "Ticker", "scrape_date"
MinRowids(rows) ==
    {i \in DOMAIN rows : \A j \in 1..(i - 1) : Key(rows[j]) # Key(rows[i])}

RECURSIVE Restrict(_, _, _)
Restrict(rows, keep, i) ==
    IF i > Len(rows) THEN <<>>
    ELSE (IF i \in keep THEN <<rows[i]>> ELSE <<>>) \o Restrict(rows, keep, i + 1)

\* Faulty variant: the DELETE removes every row of a pair held more than once.
DeleteEveryCopy(rows) ==
    Restrict(rows,
             {i \in DOMAIN rows :
                 \A j \in DOMAIN rows : Key(rows[j]) = Key(rows[i]) => j = i},
             1)

\* DELETE FROM daily_prices WHERE rowid NOT IN (SELECT MIN(rowid) ...)
DeleteDuplicates(rows) == Restrict(rows, MinRowids(rows), 1)

\* Faulty variant: the guard looks for a column name no frame has.
CompactsNever(frame) == FALSE

\* The guard of the compaction: if "Ticker" in df.columns
Compacts(frame) == frame.hasTicker

\* Faulty variant: the compaction looks at the inserted rows only, not at the table.
save_to_sqlite_new_rows_only(tbl, frame) ==
    IF Compacts(frame) THEN tbl \o DeleteDuplicates(frame.rows)
    ELSE to_sql(tbl, frame)

\* The committed table when save_to_sqlite returns.
save_to_sqlite(tbl, frame) ==
    IF Compacts(frame) THEN DeleteDuplicates(to_sql(tbl, frame))
    ELSE to_sql(tbl, frame)

-----------------------------------------------------------------------------
(* save_to_excel *)

\* pd.concat([old_df, df]) followed by drop_duplicates(subset=[Ticker,
\* scrape_date]) when the combined frame has a Ticker column; the frame
\* itself, unchanged, when the file does not exist yet.
\* DataFrame.drop_duplicates(subset=["Ticker", "scrape_date"]): keep="first"
drop_duplicates(rows) ==
    Restrict(rows,
             {i \in DOMAIN rows : ~\E j \in 1..(i - 1) : Key(rows[j]) = Key(rows[i])},
             1)

save_to_excel(file, frame) ==
    IF file = NoFile THEN frame
    ELSE LET combined == [hasTicker |-> file.hasTicker \/ frame.hasTicker,
                          rows |-> file.rows \o frame.rows]
         IN  IF combined.hasTicker
             THEN [combined EXCEPT !.rows = drop_duplicates(combined.rows)]
             ELSE combined

-----------------------------------------------------------------------------
(* send_email *)

Transports == {"up", "connect", "starttls", "login", "send"}

\* Faulty variant: send_email without its try/except.
send_email_uncaught(subject, transport) ==
    [subject |-> subject, delivered |-> transport = "up",
     raised |-> transport # "up"]

\* One call of send_email while the transport is up, or fails at the named
\* step.  Every step is inside the try block, whose except clause logs the
\* error and returns.
send_email(subject, transport) ==
    [subject |-> subject, delivered |-> transport = "up", raised |-> FALSE]

-----------------------------------------------------------------------------
(* The state when the process starts *)

InitStore ==
    /\ table = <<>> /\ schema = "none" /\ excel = NoFile
    /\ df = NoDf /\ table0 = <<>> /\ excel0 = NoFile /\ phase = "none"

InitJob ==
    /\ pc = "idle" /\ calls = <<>> /\ sent = <<>> /\ outcome = "none"
    /\ before = "none"

InitLoop(starts) ==
    /\ now \in starts /\ next_run = -1 /\ lpc = "boot" /\ start = now
    /\ served = [d \in 0..MaxDay |-> 0]
    /\ perDay = [d \in 0..MaxDay |-> 0]

-----------------------------------------------------------------------------
(* Direct calls of the store: save_to_sqlite(df), possibly repeated *)

\* The frames handed over are stamped with today's date; the database may
\* hold a record that an earlier day's run left.
StoreDates == {1}
StartTables == {<<>>, <<Row("X", 0, "a")>>}

\* A caller takes a frame to append.
Give ==
    /\ phase = "none"
    /\ \E d \in StoreDates : \E frame \in Frames(Tickers, Values, d, MaxLen) :
          /\ Len(table) + Len(frame.rows) <= MaxRows
          /\ df' = frame
    /\ phase' = "given"
    /\ UNCHANGED <<storeVars, table0, excel0, jobVars, loopVars>>

\* save_to_sqlite(df) runs to its end.
DirectSave ==
    /\ phase = "given"
    /\ ColumnsFit(schema, df)
    /\ table' = save_to_sqlite(table, df)
    /\ schema' = SchemaAfter(schema, df)
    /\ table0' = table
    /\ phase' = "once"
    /\ UNCHANGED <<excel, df, excel0, jobVars, loopVars>>

\* save_to_sqlite(df) is called again with the same frame.
DirectSaveAgain ==
    /\ phase = "once"
    /\ Len(table) + Len(df.rows) <= MaxRows
    /\ ColumnsFit(schema, df)
    /\ table' = save_to_sqlite(table, df)
    /\ schema' = SchemaAfter(schema, df)
    /\ table0' = table
    /\ phase' = "twice"
    /\ UNCHANGED <<excel, df, excel0, jobVars, loopVars>>

\* The statements of save_to_sqlite that can raise: sqlite3.connect (the
\* database cannot be opened), to_sql, the DELETE and the final commit.
\* to_sql commits its insert before it returns.
Committed(point) == point \in {"delete", "commit"}

\* What a failed save_to_sqlite leaves committed.  "connect", "to_sql":
\* nothing was inserted, or pandas rolled its insert back.  "delete",
\* "commit": pandas committed the insert when to_sql returned, so the
\* inserted rows stay and the compaction is lost.
FailedSave(tbl, frame, point) ==
    IF Committed(point) THEN to_sql(tbl, frame) ELSE tbl

FailedSchema(sch, frame, point) ==
    IF Committed(point) THEN SchemaAfter(sch, frame) ELSE sch

FailPoints(sch, frame) ==
    IF ColumnsFit(sch, frame) THEN {"connect", "to_sql", "delete", "commit"}
    ELSE {"connect", "to_sql"}

DirectSaveFails ==
    /\ phase = "given"
    /\ \E point \in FailPoints(schema, df) :
          /\ table' = FailedSave(table, df, point)
          /\ schema' = FailedSchema(schema, df, point)
    /\ table0' = table
    /\ phase' = "failed"
    /\ UNCHANGED <<excel, df, excel0, jobVars, loopVars>>

\* The caller drops the frame: a RecordSet is discarded once handed over.
Discard ==
    /\ phase \in {"once", "twice", "failed"}
    /\ phase' = "none"
    /\ df' = NoDf
    /\ table0' = table
    /\ UNCHANGED <<storeVars, excel0, jobVars, loopVars>>

NextStore ==
    Give \/ DirectSave \/ DirectSaveAgain \/ DirectSaveFails \/ Discard

\* The store is called directly, on a fresh database or on yesterday's.
InitDirect ==
    /\ table \in StartTables
    /\ schema = (IF table = <<>> THEN "none" ELSE "Ticker")
    /\ table0 = table
    /\ excel = NoFile /\ excel0 = NoFile /\ df = NoDf /\ phase = "none"
    /\ InitJob /\ InitLoop({0})

SpecStore == InitDirect /\ [][NextStore]_vars

-----------------------------------------------------------------------------
(* save_to_sqlite statement by statement, as another connection to the      *)
(* database sees it: `table` is what is committed, and every state is one   *)
(* a reader can observe.                                                    *)

\* df.to_sql(...) returns: pandas has run the insert in a transaction of its
\* own and committed it.
ToSql ==
    /\ phase = "given"
    /\ ColumnsFit(schema, df)
    /\ table' = to_sql(table, df)
    /\ schema' = SchemaAfter(schema, df)
    /\ table0' = table
    /\ phase' = "inserted"
    /\ UNCHANGED <<excel, df, excel0, jobVars, loopVars>>

\* sqlite3.connect or to_sql raises: nothing is committed.
ToSqlRaises ==
    /\ phase = "given"
    /\ \E point \in {q \in FailPoints(schema, df) : ~Committed(q)} :
          table' = FailedSave(table, df, point)
    /\ table0' = table
    /\ phase' = "failed"
    /\ UNCHANGED <<schema, excel, df, excel0, jobVars, loopVars>>

\* The guarded DELETE and conn.commit(): the compaction is committed.
DeleteCommit ==
    /\ phase = "inserted"
    /\ table' = IF Compacts(df) THEN DeleteDuplicates(table) ELSE table
    /\ phase' = "once"
    /\ UNCHANGED <<schema, excel, df, table0, excel0, jobVars, loopVars>>

\* The DELETE or conn.commit() raises: the compaction is not committed.
DeleteRaises ==
    /\ phase = "inserted"
    /\ phase' = "failed"
    /\ UNCHANGED <<storeVars, df, table0, excel0, jobVars, loopVars>>

NextStatements ==
    Give \/ ToSql \/ ToSqlRaises \/ DeleteCommit \/ DeleteRaises \/ Discard

SpecStatements == InitDirect /\ [][NextStatements]_vars

-----------------------------------------------------------------------------
(* daily_job: one ingestion cycle *)

FetchTickers == {"X"}
FetchValues == {"a"}
Pages == {"table", "no_table", "driver_error"}

Today(t) == t \div MinutesPerDay

\* The frames a page's table can parse to on date d: up to MaxFetch rows of
\* the fetched instrument (repeated rows included), or one row for each of
\* two instruments.
PageFrames(d) ==
    RecordSets(FetchTickers, FetchValues, d, MaxFetch)
    \cup {[hasTicker |-> TRUE, rows |-> <<Row("X", d, "a"), Row("Y", d, "a")>>]}
Horizon == (MaxDay + 1) * MinutesPerDay - 1

\* Faulty variant: a page without a table gives an empty frame instead of an error.
fetch_table_empty(page, frame) ==
    IF page = "table" THEN [raised |-> FALSE, df |-> frame]
    ELSE IF page = "no_table"
         THEN [raised |-> FALSE, df |-> [hasTicker |-> FALSE, rows |-> <<>>]]
         ELSE [raised |-> TRUE, df |-> NoDf]

\* fetch_table on a page snapshot: the frame parsed from the page's table,
\* or an exception when the driver fails or the page has no table.
fetch_table(page, frame) ==
    IF page = "table" THEN [raised |-> FALSE, df |-> frame]
    ELSE [raised |-> TRUE, df |-> NoDf]

\* Faulty variant: the success mail is sent before the export is written.
InOrder_mail_first(stmt) ==
    CASE stmt = "fetch"   -> "sqlite"
      [] stmt = "sqlite"  -> "mail_ok"
      [] stmt = "mail_ok" -> "excel"
      [] stmt = "excel"   -> "done"
      [] stmt = "except"  -> "done"

\* The statements of daily_job in the order they stand in.
InOrder(stmt) ==
    CASE stmt = "fetch"   -> "sqlite"
      [] stmt = "sqlite"  -> "excel"
      [] stmt = "excel"   -> "mail_ok"
      [] stmt = "mail_ok" -> "done"
      [] stmt = "except"  -> "done"

\* Faulty variant: the except clause only logs (no failure mail).
After_silent(stmt, raised) ==
    IF raised THEN (IF stmt = "except" THEN "raised" ELSE "done")
    ELSE InOrder(stmt)

\* Faulty variant: an exception of save_to_sqlite is swallowed and the cycle goes on.
After_swallow(stmt, raised) ==
    IF raised /\ stmt # "sqlite"
    THEN (IF stmt = "except" THEN "raised" ELSE "except")
    ELSE InOrder(stmt)

\* Faulty variant: no try/except around the cycle.
After_no_handler(stmt, raised) ==
    IF raised THEN "raised" ELSE InOrder(stmt)

\* The statement daily_job runs after statement stmt has returned or raised:
\* the try block runs fetch, sqlite, excel and the success mail in order, any
\* exception in it enters the except clause, and an exception in the except
\* clause leaves daily_job.
After(stmt, raised) ==
    IF raised THEN (IF stmt = "except" THEN "raised" ELSE "except")
    ELSE InOrder(stmt)

\* daily_job is entered.
Invoked ==
    /\ pc' = "fetch" /\ calls' = <<>> /\ sent' = <<>> /\ outcome' = "none"
    /\ before' = outcome
    /\ df' = NoDf /\ table0' = table /\ excel0' = excel
    /\ perDay' = [perDay EXCEPT ![Today(now)] = @ + 1]

\* df = fetch_table(), which takes up to MaxDur polling intervals and stamps
\* the rows with the date at its end.
Fetch ==
    /\ pc = "fetch"
    /\ \E d \in 0..MaxDur : \E page \in Pages :
          /\ now + d <= Horizon
          /\ now' = now + d
          /\ \E frame \in PageFrames(Today(now + d)) :
                LET r == fetch_table(page, frame) IN
                /\ ~r.raised => Len(table) + Len(r.df.rows) <= MaxRows
                /\ df' = r.df
                /\ calls' = Append(calls, <<"fetch_table", page, r.raised>>)
                /\ pc' = After("fetch", r.raised)
    /\ UNCHANGED <<storeVars, table0, excel0, phase, sent, outcome, before,
                   next_run, lpc, start, served, perDay>>

\* save_to_sqlite(df): runs to its end, or raises at a failure point.
Sqlite ==
    /\ pc = "sqlite"
    /\ \E point \in FailPoints(schema, df) \cup
                     (IF ColumnsFit(schema, df) THEN {"none"} ELSE {}) :
          LET raised == point # "none" IN
          /\ table' = IF raised THEN FailedSave(table, df, point)
                       ELSE save_to_sqlite(table, df)
          /\ schema' = IF raised THEN FailedSchema(schema, df, point)
                        ELSE SchemaAfter(schema, df)
          /\ calls' = Append(calls, <<"save_to_sqlite", point, raised>>)
          /\ pc' = After("sqlite", raised)
    /\ UNCHANGED <<excel, df, table0, excel0, phase, sent, outcome, before,
                   loopVars>>

\* save_to_excel(df): rewrites the file, or raises (a read error other than
\* FileNotFoundError, or a write error) and leaves the file as it was.
Excel ==
    /\ pc = "excel"
    /\ \E io \in {"ok", "io_error"} :
          LET raised == io # "ok" IN
          /\ excel' = IF raised THEN excel ELSE save_to_excel(excel, df)
          /\ calls' = Append(calls, <<"save_to_excel", io, raised>>)
          /\ pc' = After("excel", raised)
    /\ UNCHANGED <<table, schema, df, table0, excel0, phase, sent, outcome,
                   before, loopVars>>

\* Faulty variant: the message counts the distinct records of the frame.
success_message_distinct(frame) == Cardinality(Keys(frame.rows))

\* The row count in success_message: "Rows fetched: {len(df)}".
success_message(frame) == Len(frame.rows)

\* send_email("... Successful", success_message), then the log line of success.
MailOk ==
    /\ pc = "mail_ok"
    /\ \E transport \in Transports :
          LET r == send_email("Successful", transport) IN
          /\ sent' = Append(sent, [subject |-> r.subject, delivered |-> r.delivered,
                                   rows |-> success_message(df)])
          /\ outcome' = IF r.raised THEN outcome ELSE "success"
          /\ pc' = After("mail_ok", r.raised)
    /\ UNCHANGED <<storeVars, df, table0, excel0, phase, calls, before, loopVars>>

\* The except clause: the log line of failure, then send_email("... Failed", ...).
Except ==
    /\ pc = "except"
    /\ outcome' = "failure"
    /\ \E transport \in Transports :
          LET r == send_email("Failed", transport) IN
          /\ sent' = Append(sent, [subject |-> r.subject, delivered |-> r.delivered,
                                   rows |-> -1])
          /\ pc' = After("except", r.raised)
    /\ UNCHANGED <<storeVars, df, table0, excel0, phase, calls, before, loopVars>>

JobStep == Fetch \/ Sqlite \/ Excel \/ MailOk \/ Except

-----------------------------------------------------------------------------
(* run_daily: the scheduler loop *)

\* Faulty variant: the next due time is always a day ahead.
NextAt_tomorrow(t) == Today(t) * MinutesPerDay + RUN_TIME + MinutesPerDay

\* Faulty variant: a due time equal to the current time counts as the next one.
NextAt_or_now(t) ==
    LET today == Today(t) * MinutesPerDay + RUN_TIME
    IN  IF today >= t THEN today ELSE today + MinutesPerDay

\* schedule's next due time of an every().day.at(RUN_TIME) job, computed at
\* time t: the first occurrence of RUN_TIME strictly after t.
NextAt(t) ==
    LET today == Today(t) * MinutesPerDay + RUN_TIME
    IN  IF today > t THEN today ELSE today + MinutesPerDay

\* Faulty variant: the caller goes on without waiting for daily_job to end.
Left_at_once == TRUE

\* daily_job() is an ordinary call: the caller goes on when it has ended.
Left == pc \in {"done", "raised"}

\* Faulty variant: the loop gives up after a cycle that logged a failure.
Resume_until_failure(at) ==
    IF pc = "raised" \/ outcome = "failure" THEN "crashed" ELSE at

\* The caller's position once daily_job is left: on, or dead when it raised.
Resume(at) == IF pc = "raised" THEN "crashed" ELSE at

\* daily_job has been left; its frame and its locals are gone.
Leave ==
    /\ pc' = "idle" /\ calls' = <<>> /\ sent' = <<>> /\ df' = NoDf
    /\ table0' = table /\ excel0' = excel

\* schedule.every().day.at(RUN_TIME).do(daily_job), then daily_job().
Boot ==
    /\ lpc = "boot"
    /\ next_run' = NextAt(now)
    /\ Invoked
    /\ lpc' = "startup"
    /\ UNCHANGED <<storeVars, phase, now, start, served>>

\* The startup call of daily_job returns into the while loop, whose first
\* run_pending follows at once.
StartupReturns ==
    /\ lpc = "startup" /\ Left
    /\ lpc' = Resume("poll0")
    /\ Leave
    /\ UNCHANGED <<storeVars, phase, outcome, before, now, next_run, start,
                   served, perDay>>

\* schedule.run_pending() when the job is due: it calls daily_job.
RunPendingDue ==
    /\ lpc \in {"poll0", "poll"} /\ now >= next_run
    /\ Invoked
    /\ served' = [served EXCEPT ![Today(next_run)] = @ + 1]
    /\ lpc' = "run"
    /\ UNCHANGED <<storeVars, phase, now, next_run, start>>

\* schedule.run_pending() when the job is not due.
RunPendingIdle ==
    /\ lpc \in {"poll0", "poll"} /\ now < next_run
    /\ lpc' = "sleep"
    /\ UNCHANGED <<storeVars, df, table0, excel0, phase, jobVars, now, next_run,
                   start, served, perDay>>

\* The scheduled daily_job returns: schedule sets last_run and the next due
\* time, then run_pending returns.
ScheduledReturns ==
    /\ lpc = "run" /\ Left
    /\ next_run' = NextAt(now)
    /\ lpc' = Resume("sleep")
    /\ Leave
    /\ UNCHANGED <<storeVars, phase, outcome, before, now, start, served, perDay>>

\* time.sleep(60)
Sleep ==
    /\ lpc = "sleep"
    /\ now + 1 <= Horizon
    /\ now' = now + 1
    /\ lpc' = "poll"
    /\ UNCHANGED <<storeVars, df, table0, excel0, phase, jobVars, next_run,
                   start, served, perDay>>

LoopStep ==
    Boot \/ StartupReturns \/ RunPendingDue \/ RunPendingIdle
        \/ ScheduledReturns \/ Sleep

Init == InitStore /\ InitJob /\ InitLoop(0..(MinutesPerDay - 1))

Next == JobStep \/ LoopStep

Spec == Init /\ [][Next]_vars

\* Every call daily_job makes returns or raises, and the loop goes on.
FairSpec == Spec /\ WF_vars(Next)

-----------------------------------------------------------------------------
(* Claims on daily_job and run_daily, checked under Spec and FairSpec *)

Called(fn) == \E i \in DOMAIN calls : calls[i][1] = fn
Raised(fn) == \E i \in DOMAIN calls : calls[i][1] = fn /\ calls[i][3]

\* The collector met a failing driver or a page without a table.
CollectorFailed == calls # <<>> /\ calls[1][2] # "table"
StorageFailed == Raised("save_to_sqlite") \/ Raised("save_to_excel")
CycleFailed == \E i \in DOMAIN calls : calls[i][3]
NotifierFailed == \E i \in DOMAIN sent : ~sent[i].delivered
InFlight == pc \in {"fetch", "sqlite", "excel", "mail_ok", "except"}

\* C4: in a cycle whose collector fails, save_to_sqlite and save_to_excel
\* are not called, and the table and the export file are what they were
\* when the cycle began.
C4_CollectFailureContained ==
    CollectorFailed =>
        /\ ~Called("save_to_sqlite") /\ ~Called("save_to_excel")
        /\ table = table0 /\ excel = excel0

\* C4 witness: a cycle over a non-empty store and export has ended after
\* its collector failed.
C4_Witness ==
    /\ pc = "done" /\ CollectorFailed
    /\ table0 # <<>> /\ excel0 # NoFile

\* C5: every execution of daily_job calls send_email exactly once, with the
\* Success subject when no step failed and the Failure subject otherwise.
C5_OneNotification ==
    /\ Len(sent) <= 1
    /\ Left =>
          /\ Len(sent) = 1
          /\ sent[1].subject = (IF CycleFailed THEN "Failed" ELSE "Successful")

\* C5 witness: a cycle has ended in which a step failed and the notifier
\* failed too.
C5_Witness == pc = "done" /\ CycleFailed /\ NotifierFailed /\ Len(sent) = 1

\* C6: in a cycle whose collection succeeded and whose storage step failed,
\* no Success notification is sent, and exactly one Failure notification.
C6_PartialFailure ==
    StorageFailed =>
        /\ \A i \in DOMAIN sent : sent[i].subject # "Successful"
        /\ Left => (Len(sent) = 1 /\ sent[1].subject = "Failed")

\* C6 witness: a cycle has ended whose save_to_sqlite raised after the
\* insert, the collection having succeeded.
C6_Witness ==
    /\ pc = "done" /\ ~CollectorFailed /\ Raised("save_to_sqlite")
    /\ table # table0
    /\ Len(sent) = 1

\* C7: a transport failure inside send_email never reaches daily_job: the
\* cycle ends with that one call, the outcome it logs is the one the
\* ingestion earned, and no exception leaves daily_job.
C7_NotifierIsolation ==
    /\ pc # "raised" /\ lpc # "crashed"
    /\ NotifierFailed =>
          /\ pc = "done" /\ Len(sent) = 1
          /\ outcome = (IF CycleFailed THEN "failure" ELSE "success")
          /\ sent[1].subject = (IF CycleFailed THEN "Failed" ELSE "Successful")

\* C7 witness: a successful ingestion whose Success mail could not be sent.
C7_Witness ==
    /\ pc = "done" /\ NotifierFailed /\ ~CycleFailed
    /\ Called("save_to_excel") /\ outcome = "success"

\* The steps of the cycle's state machine: Start -> Collecting (fetch) ->
\* Storing (sqlite, excel) -> Notifying (mail_ok) -> Done, and Failed
\* (except, which notifies) from Collecting or Storing.
CycleSteps ==
    {<<"idle", "fetch">>, <<"done", "idle">>,
     <<"fetch", "sqlite">>, <<"sqlite", "excel">>, <<"excel", "mail_ok">>,
     <<"mail_ok", "done">>,
     <<"fetch", "except">>, <<"sqlite", "except">>, <<"excel", "except">>,
     <<"except", "done">>}

\* C8: every execution of daily_job moves along the cycle's state machine
\* and reaches Done; no failure of the collector, the store, the export or
\* the notifier leaves daily_job as an exception.
C8_CycleTerminates ==
    /\ [][pc' # pc => <<pc, pc'>> \in CycleSteps]_vars
    /\ [](pc # "raised" /\ lpc # "crashed")
    /\ (InFlight ~> pc = "done")

\* C8 witness: a cycle has reached Done through Failed after its export
\* failed and its notifier failed.
C8_Witness ==
    /\ pc = "done" /\ Raised("save_to_excel") /\ NotifierFailed
    /\ outcome = "failure"

Due(k) == k * MinutesPerDay + RUN_TIME

RECURSIVE SumTo(_, _)
SumTo(f, k) == IF k < 0 THEN 0 ELSE f[k] + SumTo(f, k - 1)

\* C9: run_daily calls daily_job once at once when it starts; every
\* occurrence of RUN_TIME after the start is served exactly once, by the
\* first run_pending at or after it, which is at that very polling interval
\* unless the startup cycle was still running then; and every occurrence
\* the clock reaches is served.
C9_SchedulingLiveness ==
    /\ [][lpc = "boot" => (pc' = "fetch" /\ now' = now
                             /\ perDay'[Today(start)] = 1)]_vars
    /\ [](lpc # "boot" => SumTo(perDay, MaxDay) = 1 + SumTo(served, MaxDay))
    /\ [](\A k \in 0..MaxDay :
            /\ served[k] <= 1
            /\ (Due(k) > start /\ lpc = "sleep" /\ now >= Due(k)) => served[k] = 1)
    /\ [][(lpc = "poll" /\ lpc' = "run") => now = next_run]_vars
    /\ [][(lpc = "poll0" /\ lpc' = "run") => (start < next_run /\ next_run <= now)]_vars
    /\ \A k \in 0..MaxDay : <>(Due(k) > start => served[k] = 1)

\* C9 witness: a loop started before RUN_TIME has made its startup call and
\* served the occurrences of RUN_TIME of its first and of its second day.
C9_Witness ==
    /\ start < RUN_TIME /\ lpc = "sleep"
    /\ served[0] = 1 /\ served[1] = 1 /\ perDay[0] = 2 /\ perDay[1] = 1

\* C10 as claimed: daily_job is never invoked twice on one calendar day.
C10_OncePerDay == \A k \in 0..MaxDay : perDay[k] <= 1

\* C10 as amended: no occurrence of RUN_TIME is served twice; a calendar
\* day can see two invocations (never more), the startup call and the
\* scheduled one.
C10_OncePerTrigger ==
    \A k \in 0..MaxDay : served[k] <= 1 /\ perDay[k] <= 2

\* C10 witness: the day the loop started has seen the startup call and the
\* scheduled call, and the next day its scheduled call.
C10_Witness ==
    /\ perDay[0] = 2 /\ served[0] = 1 /\ served[1] = 1 /\ pc = "done"

\* C11: a cycle that ended in failure (collector, store or export error)
\* returns into the loop like any other: run_daily never stops, the
\* startup call is followed by the first run_pending and a scheduled call
\* by the sleep with the next due time set, and every occurrence of
\* RUN_TIME after the start is still served with a new cycle.
C11_FailureDoesNotStopService ==
    /\ [](lpc # "crashed")
    /\ [][(Left /\ outcome = "failure" /\ lpc = "startup") => lpc' = "poll0"]_vars
    /\ [][(Left /\ outcome = "failure" /\ lpc = "run")
            => (lpc' = "sleep" /\ next_run' = NextAt(now))]_vars
    /\ (pc = "done" /\ outcome = "failure")
          ~> (\A k \in 0..MaxDay : Due(k) > start => served[k] = 1)

\* C11 witness: a scheduled cycle has begun at RUN_TIME after the cycle
\* before it had ended in failure.
C11_Witness ==
    /\ before = "failure" /\ lpc = "run" /\ pc = "fetch"
    /\ now = next_run /\ served[Today(now)] = 1

SuccessSent == \E i \in DOMAIN sent : sent[i].subject = "Successful"

\* C13: the row count a Success notification states is the number of rows
\* of the frame fetch_table returned in that cycle, however many of them
\* the compaction pruned; for a frame without repeated instruments stored
\* into an empty table it is also the number of records the table holds.
C13_RowsWritten ==
    SuccessSent =>
        /\ calls[1] = <<"fetch_table", "table", FALSE>>
        /\ sent[1].rows = Len(df.rows)
        /\ (table0 = <<>> /\ NoDuplicates(df.rows)) => Len(table) = sent[1].rows

\* C13 witness: a cycle reported two rows of which the store kept none,
\* both being copies of a record it held.
C13_Witness ==
    /\ pc = "done" /\ SuccessSent
    /\ sent[1].rows = 2 /\ table0 # <<>> /\ table = table0

\* The scenario of C13: two rows of two instruments stored into an empty
\* table and reported.
C13_Scenario ==
    /\ pc = "done" /\ SuccessSent
    /\ table0 = <<>> /\ NoDuplicates(df.rows)
    /\ sent[1].rows = 2 /\ Len(table) = 2

\* C15: at most one cycle is in flight and the loop waits for it: while
\* run_daily is at run_pending or asleep no cycle is in flight, a cycle in
\* flight is the startup call's or run_pending's, a cycle begins only when
\* none is in flight, and a cycle is left only at Done, also when it ends
\* at or after the next due time.
C15_NoOverlap ==
    /\ [](lpc \in {"boot", "poll0", "poll", "sleep"} => pc = "idle")
    /\ [](InFlight => lpc \in {"startup", "run"})
    /\ [][(pc' = "fetch" /\ pc # "fetch") => pc = "idle"]_vars
    /\ [][(pc # "idle" /\ pc' = "idle") => pc = "done"]_vars
    /\ [][(lpc \in {"startup", "run"} /\ lpc' # lpc) => pc = "done"]_vars

\* C15 witness: the startup cycle, begun before RUN_TIME, lasted a polling
\* interval and ended when the job was already due; it has been left, and
\* run_pending is about to be evaluated.
C15_Witness ==
    /\ lpc = "poll0" /\ pc = "idle"
    /\ start < next_run /\ next_run <= now /\ served[Today(now)] = 0

\* The cycle found that the database cannot be opened: sqlite3.connect raised.
StoreCannotOpen ==
    \E i \in DOMAIN calls : calls[i] = <<"save_to_sqlite", "connect", TRUE>>

\* C17 as claimed: when the database cannot be opened as the process
\* starts, run_daily does not enter its while loop.
C17_StartupAbort ==
    [][(lpc = "startup" /\ StoreCannotOpen) => lpc' # "poll0"]_vars

\* What the code does instead: run_daily opens nothing before its loop, and
\* a startup cycle that could not open the database ends at Done like any
\* failed cycle.
StartupOpensNothing ==
    /\ [][lpc = "boot" => UNCHANGED storeVars]_vars
    /\ []((lpc = "startup" /\ StoreCannotOpen) => pc \in {"except", "done"})

TryOrder == <<"fetch_table", "save_to_sqlite", "save_to_excel">>

\* C18: the cycle calls fetch_table, save_to_sqlite and save_to_excel in
\* that order and stops at the first that raises; a Success notification is
\* sent only when all three have returned without error; when
\* save_to_sqlite raised, save_to_excel is not called; when save_to_excel
\* raised (save_to_sqlite having returned), the cycle sends a Failure
\* notification and no other.
C18_SuccessAfterBothWrites ==
    /\ Len(calls) <= 3
    /\ \A i \in DOMAIN calls :
          /\ calls[i][1] = TryOrder[i]
          /\ calls[i][3] => i = Len(calls)
    /\ SuccessSent => (Len(calls) = 3 /\ ~CycleFailed)
    /\ Raised("save_to_sqlite") => ~Called("save_to_excel")
    /\ Raised("save_to_excel") =>
          /\ calls[2] = <<"save_to_sqlite", "none", FALSE>>
          /\ ~SuccessSent
          /\ Left => (Len(sent) = 1 /\ sent[1].subject = "Failed")

\* C18 witness: a cycle has sent its Success notification after it stored
\* new records and wrote them to the export.
C18_Witness ==
    /\ pc = "done" /\ SuccessSent /\ Len(sent) = 1
    /\ Len(table) > Len(table0) /\ excel # excel0 /\ excel0 # NoFile

ExcelSaved == Called("save_to_excel") /\ ~Raised("save_to_excel")

\* C14 as claimed: after every save_to_excel that returned, the export file
\* holds at most one row per (Ticker, scrape_date), whatever it held before
\* (no file included) and whatever the frame holds (repeated instruments
\* included).
C14_ExportUnique == ExcelSaved => NoDuplicates(excel.rows)

\* What holds in its place: the rows are unique when the file existed
\* before the call, or when the frame repeats no instrument.
ExportUniqueOnRewrite ==
    (ExcelSaved /\ (excel0 # NoFile \/ NoDuplicates(df.rows)))
        => NoDuplicates(excel.rows)

-----------------------------------------------------------------------------
(* Claims on the store, checked under SpecStore *)

TickersOf(rows) == {rows[i].Ticker : i \in DOMAIN rows}

\* The Close value of the record the rows hold for ticker t.
ValueOf(rows, t) ==
    rows[CHOOSE i \in DOMAIN rows :
            rows[i].Ticker = t /\ \A j \in 1..(i - 1) : rows[j].Ticker # t].Close

SaveReturned == phase \in {"once", "twice"}

\* C1: after save_to_sqlite has returned for a frame that carries the
\* instrument column, the whole table holds at most one record per
\* (Ticker, scrape_date), whatever the table held before (duplicates
\* included) and whatever the frame holds (duplicates included).
C1_StoreUnique == (SaveReturned /\ df.hasTicker) => NoDuplicates(table)

\* C1 witness: an append that found duplicates in the table and carried
\* duplicates itself has returned.
C1_Witness ==
    /\ phase = "once" /\ df.hasTicker
    /\ ~NoDuplicates(table0) /\ ~NoDuplicates(df.rows)
    /\ Keys(table0) \cap Keys(df.rows) # {}
    /\ NoDuplicates(table)

\* The scenario of C2: the store held what append(A) left on an empty
\* store, A with instruments {X, Y}; B with instruments {X, Z} and the same
\* date has then been appended.
CrossRunMerge ==
    /\ phase = "once" /\ df.hasTicker
    /\ TickersOf(df.rows) = {"X", "Z"}
    /\ \E d \in StoreDates : \E A \in Frames(Tickers, Values, d, MaxLen) :
          /\ A.hasTicker /\ TickersOf(A.rows) = {"X", "Y"}
          /\ table0 = save_to_sqlite(<<>>, A)

\* C2 as claimed: after append(A); append(B) there are three records, and
\* the one for X carries B's values (last write wins).
C2_LastWriteWins ==
    CrossRunMerge =>
        /\ Len(table) = 3
        /\ ValueOf(table, "X") = ValueOf(df.rows, "X")
        /\ ValueOf(table, "Y") = ValueOf(table0, "Y")
        /\ ValueOf(table, "Z") = ValueOf(df.rows, "Z")

\* C2 as amended: after append(A); append(B) there are three records, and
\* the one for X still carries A's values (first write wins); Y's is A's
\* and Z's is B's.
C2_FirstWriteWins ==
    CrossRunMerge =>
        /\ Len(table) = 3
        /\ TickersOf(table) = {"X", "Y", "Z"}
        /\ ValueOf(table, "X") = ValueOf(table0, "X")
        /\ ValueOf(table, "Y") = ValueOf(table0, "Y")
        /\ ValueOf(table, "Z") = ValueOf(df.rows, "Z")

\* C2 witness: the scenario with A and B disagreeing on X's values.
C2_Witness ==
    /\ CrossRunMerge
    /\ ValueOf(table0, "X") # ValueOf(df.rows, "X")

\* C3: after append(R); append(R) of a frame that carries the instrument
\* column the table holds exactly one record per distinct (Ticker,
\* scrape_date) of R and of what was there before, its row count is the
\* number of distinct pairs, and it is the table a single append(R) left.
C3_IdempotentConvergence ==
    (SaveReturned /\ df.hasTicker) =>
        /\ Keys(table) = Keys(table0) \cup Keys(df.rows)
        /\ Len(table) = Cardinality(Keys(table0) \cup Keys(df.rows))
        /\ phase = "twice" => table = table0

\* C3 witness: a frame with a repeated instrument has been appended twice
\* to a store that already held other records.
C3_Witness ==
    /\ phase = "twice" /\ df.hasTicker
    /\ ~NoDuplicates(df.rows)
    /\ Keys(table) \ Keys(df.rows) # {}
    /\ Len(table) = Cardinality(Keys(table))

SaveRunning == phase = "inserted"

\* C12 as claimed: while save_to_sqlite runs on a store without duplicates,
\* the committed table, which a concurrent reader sees, never holds two
\* records with the same (Ticker, scrape_date).
C12_ReaderAtomicity ==
    (SaveRunning /\ df.hasTicker /\ NoDuplicates(table0)) => NoDuplicates(table)

\* The statements of save_to_sqlite together have the effect of the whole
\* call.
StatementsMakeTheCall ==
    phase = "once" => table = save_to_sqlite(table0, df)

\* C16 as claimed: after a save_to_sqlite that raised, at whatever
\* statement, every two records of the committed table with the same
\* (Ticker, scrape_date) were both there before the call: the failed call
\* left no duplicate of its own.
C16_NoDanglingDuplicates ==
    phase = "failed" =>
        \A i, j \in DOMAIN table :
            (i # j /\ Key(table[i]) = Key(table[j]))
                => (i <= Len(table0) /\ j <= Len(table0))

\* What holds in its place: a failed call left the table as it was, or as
\* to_sql left it.
FailedSaveLeaves ==
    phase = "failed" => table \in {table0, to_sql(table0, df)}

SaveEnded == phase \in {"once", "twice", "failed"}

\* C19: every (Ticker, scrape_date) the table held before a save_to_sqlite
\* call it still holds after the call, returned or raised, whatever the
\* frame; after a call that returned the table holds exactly the pairs it
\* held before and the frame's, so the compaction removed surplus copies
\* only.
C19_HistoryKept ==
    /\ SaveEnded => Keys(table0) \subseteq Keys(table)
    /\ SaveReturned => Keys(table) = Keys(table0) \cup Keys(df.rows)

\* C19 witness: a call has returned whose compaction removed rows, the
\* table having held duplicates before and sharing a pair with the frame.
C19_Witness ==
    /\ phase = "once" /\ df.hasTicker
    /\ ~NoDuplicates(table0)
    /\ Keys(table0) \cap Keys(df.rows) # {}
    /\ Len(table) < Len(table0)
    /\ Keys(table0) \subseteq Keys(table)

\* The record with the lowest rowid among those of pair k.
RecordOf(rows, k) ==
    rows[CHOOSE i \in DOMAIN rows :
            Key(rows[i]) = k /\ \A j \in 1..(i - 1) : Key(rows[j]) # k]

\* C20: after save_to_sqlite of a frame that carries the instrument column
\* the table holds, for every pair, the record that had the lowest rowid
\* among the old rows and the frame's; so the record a duplicate-free table
\* held for a pair is the record it holds after the call, also when the
\* frame carries other values for that pair.
C20_RecordsNeverChanged ==
    (SaveReturned /\ df.hasTicker) =>
        /\ \A k \in Keys(table) : RecordOf(table, k) = RecordOf(table0 \o df.rows, k)
        /\ NoDuplicates(table0) =>
              /\ SubSeq(table, 1, Len(table0)) = table0
              /\ \A k \in Keys(table0) : RecordOf(table, k) = RecordOf(table0, k)

\* C20 witness: a frame carrying another value for a pair the duplicate-free
\* table held has been appended, and the table holds the old value.
C20_Witness ==
    /\ phase = "once" /\ df.hasTicker /\ NoDuplicates(table0)
    /\ \E k \in Keys(table0) \cap Keys(df.rows) :
          /\ RecordOf(df.rows, k).Close # RecordOf(table0, k).Close
          /\ RecordOf(table, k) = RecordOf(table0, k)

====
